---- MODULE Spec2Model ----
(***************************************************************************)
(* The BEAST example driver run_beast.py (phat_small_multidistance) and    *)
(* the catalog wrapper and configuration of datamodel.py                   *)
(* (production_runs_2019), as a state machine.                             *)
(*                                                                         *)
(* One run of the driver is: parse the command line, verify the            *)
(* configuration, then the five stage blocks in program order, then the    *)
(* help check.  Every external call is one action.  Python strings are     *)
(* sequences of one-character strings, so that str.replace and "+" are     *)
(* computed as Python computes them.  Magnitudes are held in tenths of a   *)
(* magnitude, so that numpy's interpolated percentile stays an integer.    *)
(***************************************************************************)
EXTENDS Integers, Sequences, FiniteSets, TLC

VARIABLES
    argv,       \* sys.argv[1:]: the option strings parse_args has still to read
    args,       \* the argparse namespace: flag -> BOOLEAN
    cfg,        \* the datamodel module (the configuration record)
    fs,         \* the filesystem: the set of paths that exist
    pc,         \* the driver's position
    err,        \* the uncaught exception that ended the run, or NoErr
    log,        \* the external calls made so far, in order
    out,        \* what was printed to the terminal, in order
    stages,     \* history: <<stage, "start" | "end">> markers, in order
    loc,        \* the driver's local path variables
    distances,  \* the local `distances` of the physicsmodel stage
    mag_cuts,   \* the local `mag_cuts` of the ast stage
    obsdata,    \* the catalog wrapper last built by get_obscat, or NoObs
    ret,        \* the value (or exception) of the last getFlux call
    prev        \* the filesystem before the run and, in a pair of runs, the
                \* finished first run

vars == <<argv, args, cfg, fs, pc, err, log, out, stages, loc, distances,
          mag_cuts, obsdata, ret, prev>>

(***************************************************************************)
(* Bounds of the model.                                                    *)
(***************************************************************************)
\* distance moduli are drawn from 0, 5, .., 5 * MaxDmodStep
MaxDmodStep == 2
\* longest distance list drawn in the distance specification
MaxDistLen == 2
\* most catalog rows drawn in the catalog specifications
MaxRows == 2

(***************************************************************************)
(* Python strings.                                                         *)
(***************************************************************************)
Slash == <<"/">>
S_seds == <<"_", "s", "e", "d", "s">>
S_seds_trim == <<"_", "s", "e", "d", "s", "_", "t", "r", "i", "m">>
S_noisemodel == <<"_", "n", "o", "i", "s", "e", "m", "o", "d", "e", "l">>
S_grid_hd5 == <<".", "g", "r", "i", "d", ".", "h", "d", "5">>
S_hd5 == <<".", "h", "d", "5">>
S_inputAST_txt == <<"_", "i", "n", "p", "u", "t", "A", "S", "T", ".", "t", "x", "t">>
S_stats_fits == <<"s", "t", "a", "t", "s", ".", "f", "i", "t", "s">>
S_pdf1d_fits == <<"p", "d", "f", "1", "d", ".", "f", "i", "t", "s">>
S_lnp_hd5 == <<"l", "n", "p", ".", "h", "d", "5">>
S_rate == <<"r", "a", "t", "e">>
S_vega == <<"v", "e", "g", "a">>
S_RATE == <<"R", "A", "T", "E">>
S_VEGA == <<"V", "E", "G", "A">>

\* str.replace(old, new): every non-overlapping occurrence, left to right
RECURSIVE Replace(_, _, _)
Replace(s, old, new) ==
    IF Len(s) < Len(old) THEN s
    ELSE IF SubSeq(s, 1, Len(old)) = old
         THEN new \o Replace(SubSeq(s, Len(old) + 1, Len(s)), old, new)
         ELSE <<s[1]>> \o Replace(Tail(s), old, new)

\* str.upper() on the letters the model draws
UpperChar(c) ==
    CASE c = "f" -> "F"
      [] c = "w" -> "W"
      [] OTHER -> c

Upper(s) == [i \in 1..Len(s) |-> UpperChar(s[i])]

\* all sequences over S of length at most n
RECURSIVE SeqsUpTo(_, _)
SeqsUpTo(S, n) ==
    IF n = 0 THEN {<<>>}
    ELSE LET shorter == SeqsUpTo(S, n - 1)
         IN  shorter \cup {Append(s, x) : s \in {t \in shorter : Len(t) = n - 1}, x \in S}

(***************************************************************************)
(* Plain helpers.                                                          *)
(***************************************************************************)
RECURSIVE Pow10(_)
Pow10(n) == IF n <= 0 THEN 1 ELSE 10 * Pow10(n - 1)

\* the sequences over S without a repeated element
RECURSIVE InjSeqs(_)
InjSeqs(S) ==
    {<<>>} \cup UNION {{<<x>> \o s : s \in InjSeqs(S \ {x})} : x \in S}

\* s with x put in front of the first element greater than it
RECURSIVE Insert(_, _)
Insert(x, s) ==
    IF s = <<>> THEN <<x>>
    ELSE IF x <= Head(s) THEN <<x>> \o s
         ELSE <<Head(s)>> \o Insert(x, Tail(s))

RECURSIVE Sort(_)
Sort(s) == IF s = <<>> THEN <<>> ELSE Insert(Head(s), Sort(Tail(s)))

\* the entries of s below limit, order kept (numpy.where(a < limit), then a[keep])
RECURSIVE SelectBelow(_, _)
SelectBelow(s, limit) ==
    IF s = <<>> THEN <<>>
    ELSE IF Head(s) < limit THEN <<Head(s)>> \o SelectBelow(Tail(s), limit)
         ELSE SelectBelow(Tail(s), limit)

\* numpy.percentile(a, q), linear interpolation between the two nearest ranks
NpPercentile(a, q) ==
    LET sorted == Sort(a)
        h == q * (Len(a) - 1)
        lo == h \div 100
        fr == h % 100
    IN  IF fr = 0 THEN sorted[lo + 1]
        ELSE sorted[lo + 1] + (fr * (sorted[lo + 2] - sorted[lo + 1])) \div 100

(***************************************************************************)
(* The command line.                                                       *)
(***************************************************************************)
Flags == {"physicsmodel", "ast", "observationmodel", "trim", "fit", "resume"}

\* the stage blocks in program order
StageOrder == <<"physicsmodel", "ast", "observationmodel", "trim", "fit">>

StageSet == {StageOrder[i] : i \in 1..Len(StageOrder)}

StageIndex(s) == CHOOSE i \in 1..Len(StageOrder) : StageOrder[i] = s

\* every command line that gives each flag at most once, in any order
Argvs == InjSeqs(Flags)

\* argparse with six store_true options: a flag is set iff it was given
parse_args(a) == [f \in Flags |-> \E i \in 1..Len(a) : a[i] = f]

NoArgs == [f \in Flags |-> FALSE]

(***************************************************************************)
(* The configuration module (datamodel).                                   *)
(***************************************************************************)
Q(v, u) == [value |-> v, unit |-> u]

\* filters and basefilters, two bands of the seven
filters == <<"HST_WFC3_F1W", "HST_WFC3_F2W">>

basefilters == << <<"F", "1", "W">>, <<"f", "2", "w">> >>

\* obs_colnames = [f.upper() + '_RATE' for f in basefilters]
obs_colnames == [i \in 1..Len(basefilters) |-> Upper(basefilters[i]) \o <<"_">> \o S_RATE]

\* the magnitude column beside each rate column in the catalog file
vega_colnames == [i \in 1..Len(basefilters) |-> Upper(basefilters[i]) \o <<"_">> \o S_VEGA]

\* noisefile = project + '/' + project + '_noisemodel.hd5'
noisefile(project) == project \o Slash \o project \o S_noisemodel \o S_hd5

\* the catalog every run of the driver reads unless another is drawn:
\* rates, and magnitudes in tenths (990 is the sentinel 99.0)
DefaultTable ==
    (obs_colnames[1] :> <<2, 3>>) @@ (vega_colnames[1] :> <<200, 990>>) @@
    (obs_colnames[2] :> <<1, 4>>) @@ (vega_colnames[2] :> <<210, 250>>)

\* the catalog file carries X and Y columns (the positions that make a
\* reference image unnecessary)
HasPositions(table) == {<<"X">>, <<"Y">>} \subseteq DOMAIN table

NoImage == <<>>

RefImage == <<"r", ".", "f", "i", "t", "s">>

MakeCfg(project, valid, dists, maglimit, with_pos, refimage, table) ==
    [project |-> project, valid |-> valid, distances |-> dists,
     ast_maglimit |-> maglimit, ast_with_positions |-> with_pos,
     ast_reference_image |-> refimage, filters |-> filters, table |-> table]

(***************************************************************************)
(* Artifact paths, as the library and the driver's conventions give them.  *)
(***************************************************************************)
\* '<project>/<project>_seds.grid.hd5', as each stage block builds it
SedGridFile(project) == project \o Slash \o project \o S_seds \o S_grid_hd5

\* '<project>/<project>_inputAST.txt'
InputASTFile(project) == project \o Slash \o project \o S_inputAST_txt

\* sed_trimname and noisemodel_trimname of the trim block
SedTrimName(modelsedgridfile) == Replace(modelsedgridfile, S_seds, S_seds_trim)

NoisemodelTrimName(sed_trimname) == Replace(sed_trimname, S_seds, S_noisemodel)

\* modelsedgrid and noisemodelfile of the fit block
FitSedGrid(project) == project \o Slash \o project \o S_seds_trim \o S_grid_hd5

FitNoisemodelFile(modelsedgrid) == Replace(modelsedgrid, S_seds, S_noisemodel)

\* statsfile, pdf1dfile and lnpfile of the fit block
StatsFile(project) == project \o Slash \o project \o <<"_">> \o S_stats_fits

Pdf1dFile(statsfile) == Replace(statsfile, S_stats_fits, S_pdf1d_fits)

LnpFile(statsfile) == Replace(statsfile, S_stats_fits, S_lnp_hd5)

\* what earlier invocations of the driver left on disk: nothing; the
\* physicsmodel stage's output; also the ast and observationmodel stages';
\* also the trim stage's
PriorRuns(project) ==
    LET p1 == {project, SedGridFile(project)}
        p2 == p1 \cup {InputASTFile(project), noisefile(project)}
        p3 == p2 \cup {SedTrimName(SedGridFile(project)),
                       NoisemodelTrimName(SedTrimName(SedGridFile(project)))}
    IN  <<{}, p1, p2, p3>>

(***************************************************************************)
(* State of one run.                                                       *)
(***************************************************************************)
NoErr == [kind |-> "none", at |-> "none"]

NoObs == [built |-> FALSE, filters |-> <<>>, vega_flux |-> <<>>, alias |-> <<>>,
          data |-> <<>>]

NoRet ==
    [called |-> FALSE, num |-> 0, units |-> FALSE,
     result |-> [kind |-> "none", flux |-> <<>>, tagged |-> FALSE]]


NoLoc ==
    [modelsedgridfile |-> <<>>, sed_trimname |-> <<>>, noisemodel_trimname |-> <<>>,
     modelsedgrid |-> <<>>, noisemodelfile |-> <<>>, statsfile |-> <<>>,
     pdf1dfile |-> <<>>, lnpfile |-> <<>>, filename |-> <<>>]

\* one external call: the stage block making it, the routine, the in-memory
\* object handed to it, its path arguments, its numeric arguments, a flag
Ev(stage, op, obj, paths, nums, flag) ==
    [stage |-> stage, op |-> op, obj |-> obj, paths |-> paths, nums |-> nums,
     flag |-> flag]

\* an uncaught exception ends the run
Raise(kind, at) ==
    /\ pc' = "aborted"
    /\ err' = [kind |-> kind, at |-> at]

Start(stage) == Append(stages, <<stage, "start">>)

End(stage) == Append(stages, <<stage, "end">>)

InitWith(argvs, cfgs, priors, at) ==
    /\ argv \in argvs
    /\ cfg \in cfgs
    /\ fs \in {PriorRuns(cfg.project)[i] : i \in priors}
    /\ args = NoArgs
    /\ pc = at
    /\ err = NoErr
    /\ log = <<>>
    /\ out = <<>>
    /\ stages = <<>>
    /\ loc = NoLoc
    /\ distances = <<>>
    /\ mag_cuts = <<>>
    /\ obsdata = NoObs
    /\ ret = NoRet
    /\ prev = [ran |-> FALSE, fs0 |-> fs, args |-> NoArgs, fs |-> {}, pc |-> "none",
               err |-> NoErr, log |-> <<>>, out |-> <<>>, stages |-> <<>>]

(***************************************************************************)
(* Library routines whose code is outside the driver.                      *)
(***************************************************************************)
\* verify_params.verify_input_format(datamodel) stops the run on a bad record
VerifyInputFormat(c) == c.valid

\* FileSEDGrid(path), get_noisemodelcat(path), and the grid open inside
\* summary_table_memory: opening a file that is not there raises
CanOpen(path) == path \in fs

\* Vega.getFlux(filters): one reference flux per filter
VegaFlux(f) == IF f = filters[1] THEN 3 ELSE 5

(***************************************************************************)
(* run_beast.py lines 42-61: the command line and the verification.        *)
(***************************************************************************)
\* a variant that goes from the parse straight to the first stage block
ParseArgs_NoVerify ==
    /\ pc = "parse_args"
    /\ args' = parse_args(argv)
    /\ argv' = <<>>
    /\ pc' = "physicsmodel"
    /\ UNCHANGED <<cfg, fs, err, log, out, stages, loc, distances, mag_cuts,
                   obsdata, ret, prev>>

ParseArgs ==
    /\ pc = "parse_args"
    /\ args' = parse_args(argv)
    /\ argv' = <<>>
    /\ pc' = "verify_params"
    /\ UNCHANGED <<cfg, fs, err, log, out, stages, loc, distances, mag_cuts,
                   obsdata, ret, prev>>

VerifyParams ==
    /\ pc = "verify_params"
    /\ log' = Append(log, Ev("driver", "verify_input_format", "datamodel", <<>>, <<>>, FALSE))
    /\ IF VerifyInputFormat(cfg)
       THEN pc' = "physicsmodel" /\ err' = err
       ELSE Raise("VerifyError", "verify_input_format")
    /\ UNCHANGED <<argv, args, cfg, fs, out, stages, loc, distances, mag_cuts,
                   obsdata, ret, prev>>

(***************************************************************************)
(* run_beast.py lines 63-122: the physicsmodel stage.                      *)
(***************************************************************************)
PhysicsmodelSkip ==
    /\ pc = "physicsmodel"
    /\ ~args["physicsmodel"]
    /\ pc' = "ast"
    /\ UNCHANGED <<argv, args, cfg, fs, err, log, out, stages, loc, distances,
                   mag_cuts, obsdata, ret, prev>>

CreateProjectDir ==
    /\ pc = "physicsmodel"
    /\ args["physicsmodel"]
    /\ stages' = Start("physicsmodel")
    /\ fs' = fs \cup {cfg.project}
    /\ log' = Append(log, Ev("physicsmodel", "create_project_dir", "none",
                             <<cfg.project>>, <<>>, FALSE))
    /\ pc' = "make_iso_table"
    /\ UNCHANGED <<argv, args, cfg, err, out, loc, distances, mag_cuts, obsdata,
                   ret, prev>>

MakeIsoTable ==
    /\ pc = "make_iso_table"
    /\ log' = Append(log, Ev("physicsmodel", "make_iso_table", "oiso",
                             <<cfg.project>>, <<>>, FALSE))
    /\ pc' = "distance_unit"
    /\ UNCHANGED <<argv, args, cfg, fs, err, out, stages, loc, distances, mag_cuts,
                   obsdata, ret, prev>>

\* np.power(10, dmods / 5. + 1) * units.pc
DmodToParsec(d) == Q(Pow10(d.value \div 5 + 1), "pc")

\* lines 77-84: the unit of the first entry decides for the whole list
\* (the kind of the outcome, and the distances when there is one)
DistanceUnit(ds) ==
    IF ds[1].unit = "mag"
    THEN [kind |-> "ok", distances |-> [i \in 1..Len(ds) |-> DmodToParsec(ds[i])]]
    ELSE IF ds[1].unit = "pc"
    THEN [kind |-> "ok", distances |-> ds]
    ELSE [kind |-> "ValueError", distances |-> <<>>]

\* the name each physicsmodel sub-step binds its returned object to
\* (lines 69, 92, 101, 104 and 111)
ReturnedBy(op) ==
    CASE op = "make_iso_table" -> "oiso"
      [] op = "make_spectral_grid" -> "g_spec"
      [] op = "add_stellar_priors" -> "g_pspec"
      [] op = "make_grid_with_distances" -> "g_pdist_pspec"
      [] op = "make_extinguished_sed_grid" -> "g_seds"
      [] OTHER -> "none"

\* a variant that hands a list in an unknown unit on instead of raising
DistancesInParsec_NoRaise ==
    /\ pc = "distance_unit"
    /\ LET r == DistanceUnit(cfg.distances)
       IN  distances' = IF r.kind = "ok" THEN r.distances ELSE cfg.distances
    /\ pc' = "make_spectral_grid"
    /\ UNCHANGED <<argv, args, cfg, fs, err, log, out, stages, loc, mag_cuts,
                   obsdata, ret, prev>>

DistancesInParsec ==
    /\ pc = "distance_unit"
    /\ LET r == DistanceUnit(cfg.distances)
       IN  IF r.kind = "ok"
           THEN distances' = r.distances /\ pc' = "make_spectral_grid" /\ err' = err
           ELSE distances' = distances /\ Raise(r.kind, "distance_unit")
    /\ UNCHANGED <<argv, args, cfg, fs, log, out, stages, loc, mag_cuts, obsdata,
                   ret, prev>>

MakeSpectralGrid ==
    /\ pc = "make_spectral_grid"
    /\ log' = Append(log, Ev("physicsmodel", "make_spectral_grid", "oiso",
                             <<cfg.project>>,
                             [i \in 1..Len(distances) |-> distances[i].value], FALSE))
    /\ pc' = "add_stellar_priors"
    /\ UNCHANGED <<argv, args, cfg, fs, err, out, stages, loc, distances, mag_cuts,
                   obsdata, ret, prev>>

AddStellarPriors ==
    /\ pc = "add_stellar_priors"
    /\ log' = Append(log, Ev("physicsmodel", "add_stellar_priors", "g_spec",
                             <<cfg.project>>, <<>>, FALSE))
    /\ pc' = "make_grid_with_distances"
    /\ UNCHANGED <<argv, args, cfg, fs, err, out, stages, loc, distances, mag_cuts,
                   obsdata, ret, prev>>

MakeGridWithDistances ==
    /\ pc = "make_grid_with_distances"
    /\ log' = Append(log, Ev("physicsmodel", "make_grid_with_distances", "g_pspec",
                             <<cfg.project>>,
                             [i \in 1..Len(distances) |-> distances[i].value], FALSE))
    /\ pc' = "make_extinguished_sed_grid"
    /\ UNCHANGED <<argv, args, cfg, fs, err, out, stages, loc, distances, mag_cuts,
                   obsdata, ret, prev>>

\* writes the SED grid file and ends the stage block
MakeExtinguishedSedGrid ==
    /\ pc = "make_extinguished_sed_grid"
    /\ log' = Append(log, Ev("physicsmodel", "make_extinguished_sed_grid",
                             "g_pdist_pspec", <<cfg.project>>, <<>>, FALSE))
    /\ fs' = fs \cup {SedGridFile(cfg.project)}
    /\ stages' = End("physicsmodel")
    /\ pc' = "ast"
    /\ UNCHANGED <<argv, args, cfg, err, out, loc, distances, mag_cuts, obsdata,
                   ret, prev>>

(***************************************************************************)
(* datamodel.py lines 239-329: the catalog wrapper.                        *)
(***************************************************************************)
\* the bad magnitude the ast stage tests against (99., in tenths)
BadMag == 990

\* the percentile the ast stage takes
PercentileQ == 90

\* the last index at which f stands in fl
LastIndex(fl, f) == CHOOSE i \in 1..Len(fl) : fl[i] = f /\ \A j \in (i + 1)..Len(fl) : fl[j] # f

\* GenFluxCatalog.setFilters: the filters and their Vega reference fluxes
setFilters(obs, fl) ==
    [obs EXCEPT !.filters = fl, !.vega_flux = [i \in 1..Len(fl) |-> VegaFlux(fl[i])]]

\* GenFluxCatalog.__init__: whether obs_colnames[ik] exists for every filter
InitIndexOk(fl) == Len(fl) <= Len(obs_colnames)

\* GenFluxCatalog.__init__ then get_obscat: the wrapper over the catalog file
get_obscat(table, fl) ==
    LET withFilters == setFilters([NoObs EXCEPT !.built = TRUE, !.data = table], fl)
    IN  [withFilters EXCEPT
            !.alias = [f \in {fl[i] : i \in 1..Len(fl)} |-> obs_colnames[LastIndex(fl, f)]]]

\* data.resolve_alias(name): the aliased column, or the name itself
resolve_alias(obs, name) ==
    IF name \in DOMAIN obs.alias THEN obs.alias[name] ELSE name

\* the number of rows of the catalog
NRows(table) == Len(table[obs_colnames[1]])

\* GenFluxCatalog.getFlux(num, units)
getFlux(obs, num, units) ==
    LET flux == [i \in 1..Len(obs.filters) |->
                    obs.data[resolve_alias(obs, obs.filters[i])][num] * obs.vega_flux[i]]
    IN  IF units = TRUE
        THEN \* `units` is the bool here, not the astropy module: True.erg
             [kind |-> "AttributeError", flux |-> <<>>, tagged |-> FALSE]
        ELSE [kind |-> "value", flux |-> flux, tagged |-> FALSE]

(***************************************************************************)
(* run_beast.py lines 124-162: the ast stage.                              *)
(***************************************************************************)
AstSkip ==
    /\ pc = "ast"
    /\ ~args["ast"]
    /\ pc' = "observationmodel"
    /\ UNCHANGED <<argv, args, cfg, fs, err, log, out, stages, loc, distances,
                   mag_cuts, obsdata, ret, prev>>

AstFileSEDGrid ==
    /\ pc = "ast"
    /\ args["ast"]
    /\ stages' = Start("ast")
    /\ loc' = [loc EXCEPT !.modelsedgridfile = SedGridFile(cfg.project)]
    /\ IF CanOpen(SedGridFile(cfg.project))
       THEN /\ log' = Append(log, Ev("ast", "FileSEDGrid", "none",
                                     <<SedGridFile(cfg.project)>>, <<>>, FALSE))
            /\ pc' = "ast_mag_cuts"
            /\ err' = err
       ELSE /\ log' = log
            /\ Raise("IOError", "FileSEDGrid")
    /\ UNCHANGED <<argv, args, cfg, fs, out, distances, mag_cuts, obsdata, ret, prev>>

\* a variant that takes the percentile of the rate column itself
MinMag_NoVega(obs, filtername) ==
    LET sfiltername == resolve_alias(obs, filtername)
        keep == SelectBelow(obs.data[sfiltername], BadMag)
    IN  NpPercentile(keep, PercentileQ)

\* lines 141-146 for one filter: the magnitude column of the filter's rate
\* column, its valid entries, their percentile
MinMag(obs, filtername) ==
    LET sfiltername == Replace(Replace(resolve_alias(obs, filtername), S_rate, S_vega),
                               S_RATE, S_VEGA)
        keep == SelectBelow(obs.data[sfiltername], BadMag)
    IN  NpPercentile(keep, PercentileQ)

\* lines 133-149: mag_cuts as handed to pick_models
MagCuts(c, obs) ==
    IF Len(c.ast_maglimit) = 1
    THEN [k \in 1..Len(obs.filters) |-> MinMag(obs, obs.filters[k]) + c.ast_maglimit[1]]
    ELSE c.ast_maglimit

AstMagCuts ==
    /\ pc = "ast_mag_cuts"
    /\ IF Len(cfg.ast_maglimit) = 1
       THEN /\ obsdata' = get_obscat(cfg.table, cfg.filters)
            /\ log' = Append(log, Ev("ast", "get_obscat", "none", <<>>, <<>>, FALSE))
            /\ mag_cuts' = MagCuts(cfg, obsdata')
       ELSE /\ obsdata' = obsdata
            /\ log' = log
            /\ mag_cuts' = MagCuts(cfg, obsdata)
    /\ pc' = "pick_models"
    /\ UNCHANGED <<argv, args, cfg, fs, err, out, stages, loc, distances, ret, prev>>

PickModels ==
    /\ pc = "pick_models"
    /\ log' = Append(log, Ev("ast", "pick_models", "modelsedgrid", <<>>, mag_cuts, FALSE))
    /\ fs' = fs \cup {InputASTFile(cfg.project)}
    /\ pc' = "pick_positions"
    /\ UNCHANGED <<argv, args, cfg, err, out, stages, loc, distances, mag_cuts,
                   obsdata, ret, prev>>

\* a variant that skips the position picker when there is neither a
\* reference image nor positions in the catalog
PickPositions_IfAvailable ==
    /\ pc = "pick_positions"
    /\ IF /\ cfg.ast_with_positions = TRUE
          /\ (cfg.ast_reference_image # NoImage \/ HasPositions(cfg.table))
       THEN /\ loc' = [loc EXCEPT !.filename = InputASTFile(cfg.project)]
            /\ IF cfg.ast_reference_image # NoImage
               THEN log' = Append(log, Ev("ast", "pick_positions", "none",
                                          <<InputASTFile(cfg.project),
                                            cfg.ast_reference_image>>, <<>>, TRUE))
               ELSE log' = Append(log, Ev("ast", "pick_positions", "none",
                                          <<InputASTFile(cfg.project)>>, <<>>, FALSE))
       ELSE /\ loc' = loc
            /\ log' = log
    /\ stages' = End("ast")
    /\ pc' = "observationmodel"
    /\ UNCHANGED <<argv, args, cfg, fs, err, out, distances, mag_cuts, obsdata, ret,
                   prev>>

\* lines 154-162; the flag of the event says whether refimage was passed
PickPositions ==
    /\ pc = "pick_positions"
    /\ IF cfg.ast_with_positions = TRUE
       THEN /\ loc' = [loc EXCEPT !.filename = InputASTFile(cfg.project)]
            /\ IF cfg.ast_reference_image # NoImage
               THEN log' = Append(log, Ev("ast", "pick_positions", "none",
                                          <<InputASTFile(cfg.project),
                                            cfg.ast_reference_image>>, <<>>, TRUE))
               ELSE log' = Append(log, Ev("ast", "pick_positions", "none",
                                          <<InputASTFile(cfg.project)>>, <<>>, FALSE))
       ELSE /\ loc' = loc
            /\ log' = log
    /\ stages' = End("ast")
    /\ pc' = "observationmodel"
    /\ UNCHANGED <<argv, args, cfg, fs, err, out, distances, mag_cuts, obsdata, ret,
                   prev>>

(***************************************************************************)
(* run_beast.py lines 164-177: the observationmodel stage.                 *)
(***************************************************************************)
\* a variant with the trim block nested inside the observationmodel block
ObservationmodelSkip_PastTrim ==
    /\ pc = "observationmodel"
    /\ ~args["observationmodel"]
    /\ pc' = "fit"
    /\ UNCHANGED <<argv, args, cfg, fs, err, log, out, stages, loc, distances,
                   mag_cuts, obsdata, ret, prev>>

ObservationmodelSkip ==
    /\ pc = "observationmodel"
    /\ ~args["observationmodel"]
    /\ pc' = "trim"
    /\ UNCHANGED <<argv, args, cfg, fs, err, log, out, stages, loc, distances,
                   mag_cuts, obsdata, ret, prev>>

ObsFileSEDGrid ==
    /\ pc = "observationmodel"
    /\ args["observationmodel"]
    /\ stages' = Start("observationmodel")
    /\ out' = Append(out, "Generating noise model from ASTs and absflux A matrix")
    /\ loc' = [loc EXCEPT !.modelsedgridfile = SedGridFile(cfg.project)]
    /\ IF CanOpen(SedGridFile(cfg.project))
       THEN /\ log' = Append(log, Ev("observationmodel", "FileSEDGrid", "none",
                                     <<SedGridFile(cfg.project)>>, <<>>, FALSE))
            /\ pc' = "make_toothpick_noise_model"
            /\ err' = err
       ELSE /\ log' = log
            /\ Raise("IOError", "FileSEDGrid")
    /\ UNCHANGED <<argv, args, cfg, fs, distances, mag_cuts, obsdata, ret, prev>>

\* writes datamodel.noisefile and ends the stage block
MakeToothpickNoiseModel ==
    /\ pc = "make_toothpick_noise_model"
    /\ log' = Append(log, Ev("observationmodel", "make_toothpick_noise_model",
                             "modelsedgrid", <<noisefile(cfg.project)>>, <<>>, FALSE))
    /\ fs' = fs \cup {noisefile(cfg.project)}
    /\ stages' = End("observationmodel")
    /\ pc' = "trim"
    /\ UNCHANGED <<argv, args, cfg, err, out, loc, distances, mag_cuts, obsdata,
                   ret, prev>>

(***************************************************************************)
(* run_beast.py lines 179-199: the trim stage.                             *)
(***************************************************************************)
TrimSkip ==
    /\ pc = "trim"
    /\ ~args["trim"]
    /\ pc' = "fit"
    /\ UNCHANGED <<argv, args, cfg, fs, err, log, out, stages, loc, distances,
                   mag_cuts, obsdata, ret, prev>>

TrimGetObscat ==
    /\ pc = "trim"
    /\ args["trim"]
    /\ stages' = Start("trim")
    /\ out' = Append(out, "Trimming the model and noise grids")
    /\ obsdata' = get_obscat(cfg.table, cfg.filters)
    /\ log' = Append(log, Ev("trim", "get_obscat", "none", <<>>, <<>>, FALSE))
    /\ pc' = "trim_FileSEDGrid"
    /\ UNCHANGED <<argv, args, cfg, fs, err, loc, distances, mag_cuts, ret, prev>>

\* a variant that looks for the file first and leaves the stage quietly
TrimFileSEDGrid_PreCheck ==
    /\ pc = "trim_FileSEDGrid"
    /\ loc' = [loc EXCEPT !.modelsedgridfile = SedGridFile(cfg.project)]
    /\ IF CanOpen(SedGridFile(cfg.project))
       THEN /\ log' = Append(log, Ev("trim", "FileSEDGrid", "none",
                                     <<SedGridFile(cfg.project)>>, <<>>, FALSE))
            /\ pc' = "trim_get_noisemodelcat"
       ELSE /\ log' = log
            /\ pc' = "fit"
    /\ UNCHANGED <<argv, args, cfg, fs, err, out, stages, distances, mag_cuts,
                   obsdata, ret, prev>>

TrimFileSEDGrid ==
    /\ pc = "trim_FileSEDGrid"
    /\ loc' = [loc EXCEPT !.modelsedgridfile = SedGridFile(cfg.project)]
    /\ IF CanOpen(SedGridFile(cfg.project))
       THEN /\ log' = Append(log, Ev("trim", "FileSEDGrid", "none",
                                     <<SedGridFile(cfg.project)>>, <<>>, FALSE))
            /\ pc' = "trim_get_noisemodelcat"
            /\ err' = err
       ELSE /\ log' = log
            /\ Raise("IOError", "FileSEDGrid")
    /\ UNCHANGED <<argv, args, cfg, fs, out, stages, distances, mag_cuts, obsdata,
                   ret, prev>>

TrimGetNoisemodelcat ==
    /\ pc = "trim_get_noisemodelcat"
    /\ IF CanOpen(noisefile(cfg.project))
       THEN /\ log' = Append(log, Ev("trim", "get_noisemodelcat", "none",
                                     <<noisefile(cfg.project)>>, <<>>, FALSE))
            /\ pc' = "trim_names"
            /\ err' = err
       ELSE /\ log' = log
            /\ Raise("IOError", "get_noisemodelcat")
    /\ UNCHANGED <<argv, args, cfg, fs, out, stages, loc, distances, mag_cuts,
                   obsdata, ret, prev>>

TrimNames ==
    /\ pc = "trim_names"
    /\ loc' = [loc EXCEPT
                 !.sed_trimname = SedTrimName(loc.modelsedgridfile),
                 !.noisemodel_trimname =
                     NoisemodelTrimName(SedTrimName(loc.modelsedgridfile))]
    /\ pc' = "trim_models"
    /\ UNCHANGED <<argv, args, cfg, fs, err, log, out, stages, distances, mag_cuts,
                   obsdata, ret, prev>>

\* writes the two trimmed files and ends the stage block
TrimModels ==
    /\ pc = "trim_models"
    /\ log' = Append(log, Ev("trim", "trim_models", "modelsedgrid",
                             <<loc.sed_trimname, loc.noisemodel_trimname>>, <<3>>, FALSE))
    /\ fs' = fs \cup {loc.sed_trimname, loc.noisemodel_trimname}
    /\ stages' = End("trim")
    /\ pc' = "fit"
    /\ UNCHANGED <<argv, args, cfg, err, out, loc, distances, mag_cuts, obsdata,
                   ret, prev>>

(***************************************************************************)
(* run_beast.py lines 201-232: the fit stage.                              *)
(***************************************************************************)
FitSkip ==
    /\ pc = "fit"
    /\ ~args["fit"]
    /\ pc' = "print_help"
    /\ UNCHANGED <<argv, args, cfg, fs, err, log, out, stages, loc, distances,
                   mag_cuts, obsdata, ret, prev>>

FitNames ==
    /\ pc = "fit"
    /\ args["fit"]
    /\ stages' = Start("fit")
    /\ loc' = [loc EXCEPT
                 !.modelsedgrid = FitSedGrid(cfg.project),
                 !.noisemodelfile = FitNoisemodelFile(FitSedGrid(cfg.project))]
    /\ pc' = "fit_get_noisemodelcat"
    /\ UNCHANGED <<argv, args, cfg, fs, err, log, out, distances, mag_cuts, obsdata,
                   ret, prev>>

FitGetNoisemodelcat ==
    /\ pc = "fit_get_noisemodelcat"
    /\ IF CanOpen(loc.noisemodelfile)
       THEN /\ log' = Append(log, Ev("fit", "get_noisemodelcat", "none",
                                     <<loc.noisemodelfile>>, <<>>, FALSE))
            /\ pc' = "fit_get_obscat"
            /\ err' = err
       ELSE /\ log' = log
            /\ Raise("IOError", "get_noisemodelcat")
    /\ UNCHANGED <<argv, args, cfg, fs, out, stages, loc, distances, mag_cuts,
                   obsdata, ret, prev>>

FitGetObscat ==
    /\ pc = "fit_get_obscat"
    /\ obsdata' = get_obscat(cfg.table, cfg.filters)
    /\ log' = Append(log, Ev("fit", "get_obscat", "none", <<>>, <<>>, FALSE))
    /\ out' = Append(out, "project")
    /\ loc' = [loc EXCEPT
                 !.statsfile = StatsFile(cfg.project),
                 !.pdf1dfile = Pdf1dFile(StatsFile(cfg.project)),
                 !.lnpfile = LnpFile(StatsFile(cfg.project))]
    /\ pc' = "summary_table_memory"
    /\ UNCHANGED <<argv, args, cfg, fs, err, stages, distances, mag_cuts, ret, prev>>

\* a variant that does not hand the resume flag on
SummaryTableMemory_NoResume ==
    /\ pc = "summary_table_memory"
    /\ IF CanOpen(loc.modelsedgrid)
       THEN /\ log' = Append(log, Ev("fit", "summary_table_memory", "obsdata",
                                     <<loc.modelsedgrid, loc.statsfile, loc.pdf1dfile,
                                       loc.lnpfile>>, <<-10, 100, 60>>, FALSE))
            /\ fs' = fs \cup {loc.statsfile, loc.pdf1dfile, loc.lnpfile}
            /\ out' = Append(out, "time to fit")
            /\ stages' = End("fit")
            /\ pc' = "print_help"
            /\ err' = err
       ELSE /\ log' = log
            /\ fs' = fs
            /\ out' = out
            /\ stages' = stages
            /\ Raise("IOError", "summary_table_memory")
    /\ UNCHANGED <<argv, args, cfg, loc, distances, mag_cuts, obsdata, ret, prev>>

\* the fit itself: opens the trimmed grid, writes the three outputs; the
\* flag of the event is the resume argument
SummaryTableMemory ==
    /\ pc = "summary_table_memory"
    /\ IF CanOpen(loc.modelsedgrid)
       THEN /\ log' = Append(log, Ev("fit", "summary_table_memory", "obsdata",
                                     <<loc.modelsedgrid, loc.statsfile, loc.pdf1dfile,
                                       loc.lnpfile>>, <<-10, 100, 60>>, args["resume"]))
            /\ fs' = fs \cup {loc.statsfile, loc.pdf1dfile, loc.lnpfile}
            /\ out' = Append(out, "time to fit")
            /\ stages' = End("fit")
            /\ pc' = "print_help"
            /\ err' = err
       ELSE /\ log' = log
            /\ fs' = fs
            /\ out' = out
            /\ stages' = stages
            /\ Raise("IOError", "summary_table_memory")
    /\ UNCHANGED <<argv, args, cfg, loc, distances, mag_cuts, obsdata, ret, prev>>

(***************************************************************************)
(* run_beast.py lines 234-236: the help check.                             *)
(***************************************************************************)
\* any(vars(args).values())
AnyArg(a) == \E f \in Flags : a[f]

\* a variant that looks at the five stage flags only
PrintHelp_StageFlagsOnly ==
    /\ pc = "print_help"
    /\ out' = IF ~(\E f \in StageSet : args[f]) THEN Append(out, "help") ELSE out
    /\ pc' = "done"
    /\ UNCHANGED <<argv, args, cfg, fs, err, log, stages, loc, distances, mag_cuts,
                   obsdata, ret, prev>>

PrintHelp ==
    /\ pc = "print_help"
    /\ out' = IF ~AnyArg(args) THEN Append(out, "help") ELSE out
    /\ pc' = "done"
    /\ UNCHANGED <<argv, args, cfg, fs, err, log, stages, loc, distances, mag_cuts,
                   obsdata, ret, prev>>

(***************************************************************************)
(* One run of the driver.                                                  *)
(***************************************************************************)
\* the project names, distance lists and configurations of the driver's runs
Projects == {<<"x">>, S_seds}

DriverDistances == {<<Q(10, "mag")>>, <<Q(100, "pc")>>, <<Q(2, "s")>>}

DriverConfigs ==
    {MakeCfg(p, v, d, <<10>>, TRUE, NoImage, DefaultTable) :
        p \in Projects, v \in BOOLEAN, d \in DriverDistances}

Init == InitWith(Argvs, DriverConfigs, 1..4, "parse_args")

Next ==
    \/ ParseArgs
    \/ VerifyParams
    \/ PhysicsmodelSkip
    \/ CreateProjectDir
    \/ MakeIsoTable
    \/ DistancesInParsec
    \/ MakeSpectralGrid
    \/ AddStellarPriors
    \/ MakeGridWithDistances
    \/ MakeExtinguishedSedGrid
    \/ AstSkip
    \/ AstFileSEDGrid
    \/ AstMagCuts
    \/ PickModels
    \/ PickPositions
    \/ ObservationmodelSkip
    \/ ObsFileSEDGrid
    \/ MakeToothpickNoiseModel
    \/ TrimSkip
    \/ TrimGetObscat
    \/ TrimFileSEDGrid
    \/ TrimGetNoisemodelcat
    \/ TrimNames
    \/ TrimModels
    \/ FitSkip
    \/ FitNames
    \/ FitGetNoisemodelcat
    \/ FitGetObscat
    \/ SummaryTableMemory
    \/ PrintHelp

Spec == Init /\ [][Next]_vars

(***************************************************************************)
(* Two invocations that differ only in the resume flag: once the first     *)
(* has ended, the second starts from the same filesystem and the same      *)
(* configuration, with the same stage flags in any order.                  *)
(***************************************************************************)
Terminated == pc \in {"done", "aborted"}

FlipResume(a) == [a EXCEPT !["resume"] = ~a["resume"]]

Rerun ==
    /\ Terminated
    /\ ~prev.ran
    /\ prev' = [ran |-> TRUE, fs0 |-> prev.fs0, args |-> args, fs |-> fs, pc |-> pc,
                err |-> err, log |-> log, out |-> out, stages |-> stages]
    /\ argv' \in {a \in Argvs : parse_args(a) = FlipResume(args)}
    /\ args' = NoArgs
    /\ fs' = prev.fs0
    /\ pc' = "parse_args"
    /\ err' = NoErr
    /\ log' = <<>>
    /\ out' = <<>>
    /\ stages' = <<>>
    /\ loc' = NoLoc
    /\ distances' = <<>>
    /\ mag_cuts' = <<>>
    /\ obsdata' = NoObs
    /\ UNCHANGED <<cfg, ret>>

NextPair == Next \/ Rerun

SpecPair == Init /\ [][NextPair]_vars

(***************************************************************************)
(* The physicsmodel stage over many distance lists.                        *)
(***************************************************************************)
DistanceUnits == {"mag", "pc", "kpc", "s"}

\* moduli at which the exponent d / 5 + 1 is a whole number
DistanceValues == {5 * k : k \in 0..MaxDmodStep}

Quantities == {Q(v, u) : v \in DistanceValues, u \in DistanceUnits}

DistanceLists == SeqsUpTo(Quantities, MaxDistLen) \ {<<>>}

DistConfigs ==
    {MakeCfg(<<"x">>, TRUE, d, <<10>>, TRUE, NoImage, DefaultTable) : d \in DistanceLists}

InitDist == InitWith({<<"physicsmodel">>}, DistConfigs, {1}, "parse_args")

NextDist ==
    \/ ParseArgs
    \/ VerifyParams
    \/ CreateProjectDir
    \/ MakeIsoTable
    \/ DistancesInParsec
    \/ MakeSpectralGrid
    \/ AddStellarPriors
    \/ MakeGridWithDistances
    \/ MakeExtinguishedSedGrid
    \/ AstSkip
    \/ ObservationmodelSkip
    \/ TrimSkip
    \/ FitSkip
    \/ PrintHelp

SpecDist == InitDist /\ [][NextDist]_vars

(***************************************************************************)
(* The ast stage over many catalogs, cut lists and position settings.      *)
(***************************************************************************)
\* magnitudes in tenths; BadMag is the sentinel of a missing measurement
Mags == {200, 250, BadMag}

\* a magnitude column has a valid entry
HasValid(col) == \E i \in 1..Len(col) : col[i] < BadMag

MagColumns(n) == {c \in [1..n -> Mags] : HasValid(c)}

AstTables ==
    UNION {{(obs_colnames[1] :> [i \in 1..n |-> i]) @@ (vega_colnames[1] :> c1) @@
            (obs_colnames[2] :> [i \in 1..n |-> i + 1]) @@ (vega_colnames[2] :> c2) :
                c1 \in MagColumns(n), c2 \in MagColumns(n)} : n \in 1..MaxRows}

\* the same catalogs with X and Y columns
AstTablesXY ==
    {t @@ (<<"X">> :> [i \in 1..NRows(t) |-> i]) @@ (<<"Y">> :> [i \in 1..NRows(t) |-> i]) :
        t \in AstTables}

MagLimits == {<<10>>, <<250>>, <<250, 260>>, <<250, 260, 270>>, <<>>}

FilterLists == {<<filters[1]>>, filters}

AstConfigs ==
    {[MakeCfg(<<"x">>, TRUE, <<Q(10, "mag")>>, m, w, r, t) EXCEPT !.filters = fl] :
        m \in MagLimits, w \in BOOLEAN, r \in {NoImage, RefImage},
        t \in AstTables \cup AstTablesXY,
        fl \in FilterLists}

\* with and without the SED grid of an earlier physicsmodel run
InitAst == InitWith({<<"ast">>}, AstConfigs, {1, 2}, "parse_args")

NextAst ==
    \/ ParseArgs
    \/ VerifyParams
    \/ PhysicsmodelSkip
    \/ AstFileSEDGrid
    \/ AstMagCuts
    \/ PickModels
    \/ PickPositions
    \/ ObservationmodelSkip
    \/ TrimSkip
    \/ FitSkip
    \/ PrintHelp

SpecAst == InitAst /\ [][NextAst]_vars

(***************************************************************************)
(* The catalog wrapper on its own: get_obscat, then getFlux calls.         *)
(***************************************************************************)
Rates == {1, 2}

CatTables ==
    UNION {{(obs_colnames[1] :> r1) @@ (vega_colnames[1] :> [i \in 1..n |-> 200]) @@
            (obs_colnames[2] :> r2) @@ (vega_colnames[2] :> [i \in 1..n |-> 250]) :
                r1 \in [1..n -> Rates], r2 \in [1..n -> Rates]} : n \in 1..MaxRows}

CatConfigs ==
    {MakeCfg(<<"x">>, TRUE, <<Q(10, "mag")>>, <<10>>, TRUE, NoImage, t) : t \in CatTables}

\* every filter list of at most one more entry than there are columns
CatFilterLists == SeqsUpTo({filters[i] : i \in 1..Len(filters)}, Len(obs_colnames) + 1)

\* a session that imports datamodel and uses the wrapper, not the driver
InitCat == InitWith({<<>>}, CatConfigs, {1}, "catalog")

\* get_obscat(obsfile, fl); the alias loop raises past the last column name
GetObscatCall ==
    /\ pc = "catalog"
    /\ \E fl \in CatFilterLists :
          IF InitIndexOk(fl)
          THEN obsdata' = get_obscat(cfg.table, fl)
          ELSE obsdata' = NoObs
    /\ ret' = NoRet
    /\ UNCHANGED <<argv, args, cfg, fs, pc, err, log, out, stages, loc, distances,
                   mag_cuts, prev>>

\* obs.getFlux(num, units)
GetFluxCall ==
    /\ pc = "catalog"
    /\ obsdata.built
    /\ \E num \in 1..NRows(obsdata.data), units \in BOOLEAN :
          ret' = [called |-> TRUE, num |-> num, units |-> units,
                  result |-> getFlux(obsdata, num, units)]
    /\ UNCHANGED <<argv, args, cfg, fs, pc, err, log, out, stages, loc, distances,
                   mag_cuts, obsdata, prev>>

NextCat == GetObscatCall \/ GetFluxCall

SpecCat == InitCat /\ [][NextCat]_vars

(***************************************************************************)
(* Vocabulary of the properties.                                           *)
(***************************************************************************)
Count(stage, mark) == Cardinality({i \in 1..Len(stages) : stages[i] = <<stage, mark>>})

Started(stage) == Count(stage, "start") > 0

Completed(stage) == Count(stage, "end") > 0

PosOf(stage, mark) == CHOOSE i \in 1..Len(stages) : stages[i] = <<stage, mark>>

\* the files a completed stage block has written
StageOutputs(stage) ==
    CASE stage = "physicsmodel" -> {cfg.project, SedGridFile(cfg.project)}
      [] stage = "ast" -> {InputASTFile(cfg.project)}
      [] stage = "observationmodel" -> {noisefile(cfg.project)}
      [] stage = "trim" -> {loc.sed_trimname, loc.noisemodel_trimname}
      [] stage = "fit" -> {loc.statsfile, loc.pdf1dfile, loc.lnpfile}

AnyStageFlag(a) == \E s \in StageSet : a[s]

VerifyEv == Ev("driver", "verify_input_format", "datamodel", <<>>, <<>>, FALSE)

VerifyCount == Cardinality({i \in 1..Len(log) : log[i].op = "verify_input_format"})

BeforeStages == pc \in {"parse_args", "verify_params"}

HasCall(l, op) == \E i \in 1..Len(l) : l[i].op = op

(***************************************************************************)
(* C1.                                                                     *)
(***************************************************************************)
\* C1 as stated, read for configurations that pass the verification:
\* whenever a run has ended, every stage whose flag is set has run exactly
\* once, start to end, and every other stage never.
C1_EveryFlaggedStageRan ==
    (Terminated /\ cfg.valid) =>
        \A s \in StageSet :
            /\ Count(s, "start") = (IF args[s] THEN 1 ELSE 0)
            /\ Count(s, "end") = (IF args[s] THEN 1 ELSE 0)

\* C1, amended: a stage runs at most once and only if its flag is set; the
\* stages that run do so in the order physicsmodel, ast, observationmodel,
\* trim, fit, whatever the order of the flags on the command line; a stage
\* starts only after every requested earlier stage has ended and its files
\* are on disk; and a run that ends without an error has run every flagged
\* stage exactly once and no other.
C1_StagesOnceInOrder ==
    /\ \A s \in StageSet :
          /\ Count(s, "start") <= 1
          /\ Count(s, "end") <= Count(s, "start")
          /\ Started(s) => args[s]
    /\ \A i, j \in 1..Len(stages) :
          i < j =>
            /\ StageIndex(stages[i][1]) <= StageIndex(stages[j][1])
            /\ stages[i][1] = stages[j][1] => stages[i][2] = "start" /\ stages[j][2] = "end"
    /\ \A i, j \in 1..Len(log) :
          (i < j /\ log[i].stage # "driver") =>
              /\ log[j].stage # "driver"
              /\ StageIndex(log[i].stage) <= StageIndex(log[j].stage)
    /\ \A i \in 1..Len(log) : log[i].stage # "driver" => Started(log[i].stage)
    /\ \A s, t \in StageSet :
          (Started(s) /\ args[t] /\ StageIndex(t) < StageIndex(s)) =>
              /\ Completed(t)
              /\ PosOf(t, "end") < PosOf(s, "start")
              /\ StageOutputs(t) \subseteq fs
    /\ pc = "done" =>
          \A s \in StageSet :
              /\ Count(s, "start") = (IF args[s] THEN 1 ELSE 0)
              /\ Count(s, "end") = (IF args[s] THEN 1 ELSE 0)

\* a run from an empty disk with all five stage flags that ran all five stages
C1_AllStagesRan ==
    /\ pc = "done"
    /\ prev.fs0 = {}
    /\ \A s \in StageSet : args[s] /\ Completed(s)

(***************************************************************************)
(* C2.                                                                     *)
(***************************************************************************)
\* C2: verify_input_format is called exactly once, after the parse and
\* before anything a stage or the help check does, whatever the flags; when
\* it fails the run is aborted there: no stage has started, nothing was
\* printed (so no help), no file was made and no other call was made.
C2_VerifiedOnceFirst ==
    /\ VerifyCount <= 1
    /\ pc = "parse_args" => log = <<>>
    /\ ~BeforeStages => (VerifyCount = 1 /\ log[1] = VerifyEv)
    /\ (stages # <<>> \/ out # <<>> \/ fs # prev.fs0 \/ Len(log) > 1) =>
          (cfg.valid /\ log[1] = VerifyEv /\ ~BeforeStages)
    /\ (~cfg.valid /\ ~BeforeStages) =>
          /\ pc = "aborted"
          /\ err = [kind |-> "VerifyError", at |-> "verify_input_format"]
          /\ stages = <<>>
          /\ out = <<>>
          /\ fs = prev.fs0
          /\ log = <<VerifyEv>>

\* a run with stage flags set that the verification aborted
C2_AbortedByVerification ==
    /\ pc = "aborted"
    /\ ~cfg.valid
    /\ args["physicsmodel"]
    /\ args["fit"]

(***************************************************************************)
(* C3.                                                                     *)
(***************************************************************************)
\* C3 as stated, read for configurations that pass the verification: a run
\* with none of the five stage flags set ends without error, having printed
\* the help and nothing else, run no stage and left the filesystem as it was.
C3_HelpWithoutStageFlag ==
    (Terminated /\ cfg.valid /\ ~AnyStageFlag(args)) =>
        /\ pc = "done"
        /\ err = NoErr
        /\ out = <<"help">>
        /\ stages = <<>>
        /\ fs = prev.fs0

\* C3, amended: a run with none of the five stage flags set runs no stage and
\* leaves the filesystem as it was; if the configuration passes the
\* verification it ends without error, and it prints the help exactly when
\* the resume flag is not set either (with resume alone nothing is printed).
C3_HelpWithoutAnyFlag ==
    ~AnyStageFlag(args) =>
        /\ stages = <<>>
        /\ fs = prev.fs0
        /\ \A i \in 1..Len(log) : log[i] = VerifyEv
        /\ (Terminated /\ cfg.valid) =>
              /\ pc = "done"
              /\ err = NoErr
              /\ out = (IF args["resume"] THEN <<>> ELSE <<"help">>)

\* a run without any flag that ended with the help printed
C3_HelpPrinted ==
    /\ pc = "done"
    /\ ~AnyArg(args)
    /\ out = <<"help">>
    /\ prev.fs0 # {}

(***************************************************************************)
(* C4.                                                                     *)
(***************************************************************************)
\* the calls of a run with the resume argument of the fit blanked
MaskResume(l) ==
    [i \in 1..Len(l) |->
        IF l[i].op = "summary_table_memory" THEN [l[i] EXCEPT !.flag = FALSE] ELSE l[i]]

IsNotHelp(x) == x # "help"

WithoutHelp(o) == SelectSeq(o, IsNotHelp)

\* both runs of a pair have ended, the second with the resume flag flipped
PairEnded == prev.ran /\ Terminated /\ args = FlipResume(prev.args)

\* C4 as stated: two runs that differ only in the resume flag make the same
\* calls with the same arguments, but for the resume argument of the fit,
\* which is the run's flag, and print the same (the help included).
C4_ResumeOnlyInFit ==
    PairEnded =>
        /\ stages = prev.stages
        /\ MaskResume(log) = MaskResume(prev.log)
        /\ pc = prev.pc
        /\ err = prev.err
        /\ fs = prev.fs
        /\ \A i \in 1..Len(log) :
              log[i].op = "summary_table_memory" =>
                  (log[i].flag = args["resume"] /\ prev.log[i].flag = prev.args["resume"])
        /\ out = prev.out

\* C4, amended: two runs that differ only in the resume flag run the same
\* stages, make the same calls with the same arguments and end the same way,
\* but for the resume argument of the fit, which is the run's flag, and but
\* for the help: each run prints the help exactly when it ends without error
\* with none of its six flags set, so with no stage flag the run without
\* resume prints the help and the run with resume prints nothing.
C4_ResumeInFitAndHelp ==
    PairEnded =>
        /\ stages = prev.stages
        /\ MaskResume(log) = MaskResume(prev.log)
        /\ pc = prev.pc
        /\ err = prev.err
        /\ fs = prev.fs
        /\ \A i \in 1..Len(log) :
              log[i].op = "summary_table_memory" =>
                  (log[i].flag = args["resume"] /\ prev.log[i].flag = prev.args["resume"])
        /\ WithoutHelp(out) = WithoutHelp(prev.out)
        /\ (out # WithoutHelp(out)) <=> (pc = "done" /\ ~AnyArg(args))
        /\ (prev.out # WithoutHelp(prev.out)) <=> (prev.pc = "done" /\ ~AnyArg(prev.args))

\* a pair of runs that both reached the fit, the second with resume set
C4_FitRanTwice ==
    /\ PairEnded
    /\ pc = "done"
    /\ args["resume"]
    /\ \E i \in 1..Len(log) : log[i].op = "summary_table_memory" /\ log[i].flag
    /\ \E i \in 1..Len(prev.log) :
          prev.log[i].op = "summary_table_memory" /\ ~prev.log[i].flag

(***************************************************************************)
(* C5.                                                                     *)
(***************************************************************************)
LengthUnits == {"pc", "kpc"}

AllUnitsIn(ds, U) == \A i \in 1..Len(ds) : ds[i].unit \in U

\* the unit test of the physicsmodel stage has been passed or has raised
DistanceUnitDone == distances # <<>> \/ err.at = "distance_unit"

\* C5: past the unit test of the physicsmodel stage, a list in magnitudes
\* has become 10^(d/5 + 1) parsec entry by entry, a list in length units
\* (parsec or any other) is the configured list unchanged, and any other
\* list, one of mixed readings included, has raised the ValueError.
C5_DistancesByUnit ==
    DistanceUnitDone =>
        IF AllUnitsIn(cfg.distances, {"mag"})
        THEN /\ err = NoErr
             /\ distances = [i \in 1..Len(cfg.distances) |->
                                Q(Pow10(cfg.distances[i].value \div 5 + 1), "pc")]
        ELSE IF AllUnitsIn(cfg.distances, LengthUnits)
        THEN /\ err = NoErr
             /\ distances = cfg.distances
        ELSE err = [kind |-> "ValueError", at |-> "distance_unit"]

(***************************************************************************)
(* C6.                                                                     *)
(***************************************************************************)
S_trim == <<"_", "t", "r", "i", "m">>

\* C6: the two paths the trim stage writes are the two paths the fit stage
\* opens; every FileSEDGrid call opens '<project>/<project>_seds.grid.hd5';
\* the noise model the trim stage reads is at the path the observationmodel
\* stage writes. For every project name.
C6_PathsAgreeAcrossStages ==
    /\ (loc.sed_trimname # <<>> /\ loc.modelsedgrid # <<>>) =>
          /\ loc.modelsedgrid = loc.sed_trimname
          /\ loc.noisemodelfile = loc.noisemodel_trimname
    /\ \A i \in 1..Len(log) :
          log[i].op = "FileSEDGrid" =>
              log[i].paths = <<cfg.project \o Slash \o cfg.project \o S_seds \o S_grid_hd5>>
    /\ \A i, j \in 1..Len(log) :
          (log[i].op = "make_toothpick_noise_model"
              /\ log[j].op = "get_noisemodelcat" /\ log[j].stage = "trim") =>
                  log[i].paths = log[j].paths

(***************************************************************************)
(* C7.                                                                     *)
(***************************************************************************)
\* C7: for every project name the trim stage's sed_trimname is
\* '<project>/<project>_seds_trim.grid.hd5' and its noisemodel_trimname is
\* '<project>/<project>_noisemodel_trim.grid.hd5': only the marker before
\* '.grid.hd5' differs from the grid's name, directory and stem do not.
C7_TrimNamesChangeMarkerOnly ==
    loc.sed_trimname # <<>> =>
        /\ loc.sed_trimname =
              cfg.project \o Slash \o cfg.project \o S_seds \o S_trim \o S_grid_hd5
        /\ loc.noisemodel_trimname =
              cfg.project \o Slash \o cfg.project \o S_noisemodel \o S_trim \o S_grid_hd5

(***************************************************************************)
(* C8.                                                                     *)
(***************************************************************************)
\* the trim stage has started and there is no SED grid file
TrimWithoutGrid == Started("trim") /\ SedGridFile(cfg.project) \notin fs

\* C8: when the trim stage runs and there is no SED grid file, the run is at
\* the open or has been ended by the error the open raised; the last call
\* made is the stage's get_obscat (nothing looks for the file before the
\* open), trim_models is never called, no file has been written, the stage
\* has not ended and the fit stage has not started.
C8_TrimFailsAtOpen ==
    TrimWithoutGrid =>
        /\ \/ pc = "trim_FileSEDGrid"
           \/ pc = "aborted" /\ err = [kind |-> "IOError", at |-> "FileSEDGrid"]
        /\ log[Len(log)] = Ev("trim", "get_obscat", "none", <<>>, <<>>, FALSE)
        /\ ~HasCall(log, "trim_models")
        /\ fs = prev.fs0
        /\ ~Completed("trim")
        /\ ~Started("fit")

\* a run with trim and fit requested that the open of the missing grid ended
C8_AbortedAtOpen ==
    /\ TrimWithoutGrid
    /\ pc = "aborted"
    /\ args["fit"]

(***************************************************************************)
(* C9.                                                                     *)
(***************************************************************************)
\* the rows of a magnitude column that hold a valid magnitude
ValidRows(col) == {i \in 1..Len(col) : col[i] < 990}

\* the j-th smallest valid magnitude of a column
RankedMag(col, j) ==
    CHOOSE v \in {col[i] : i \in ValidRows(col)} :
        /\ Cardinality({i \in ValidRows(col) : col[i] < v}) < j
        /\ j <= Cardinality({i \in ValidRows(col) : col[i] <= v})

\* the 90th percentile of the valid magnitudes of a column: at rank
\* 1 + 0.9 (n - 1), interpolated between the two ranks around it
Percentile90(col) ==
    LET n == Cardinality(ValidRows(col))
        lo == (9 * (n - 1)) \div 10
        tenths == (9 * (n - 1)) % 10
    IN  IF tenths = 0 THEN RankedMag(col, lo + 1)
        ELSE RankedMag(col, lo + 1)
             + (tenths * (RankedMag(col, lo + 2) - RankedMag(col, lo + 1))) \div 10

\* C9: the cuts handed to pick_models are, for a one-element ast_maglimit,
\* one cut per filter, the 90th percentile of the filter's valid (< 99)
\* magnitudes plus the configured number (also when there is one filter);
\* otherwise the configured list as it is, whatever its length.
C9_MagCuts ==
    \A i \in 1..Len(log) :
        log[i].op = "pick_models" =>
            IF Len(cfg.ast_maglimit) = 1
            THEN log[i].nums =
                    [k \in 1..Len(cfg.filters) |->
                        Percentile90(cfg.table[vega_colnames[k]]) + cfg.ast_maglimit[1]]
            ELSE log[i].nums = cfg.ast_maglimit

\* pick_models was handed cuts derived from a catalog with a bad magnitude
\* in one band and an interpolated percentile in another
C9_DerivedCuts ==
    /\ HasCall(log, "pick_models")
    /\ Len(cfg.ast_maglimit) = 1
    /\ Len(cfg.filters) = 2
    /\ \E k \in 1..2 : \E r \in 1..Len(cfg.table[vega_colnames[k]]) :
          cfg.table[vega_colnames[k]][r] = 990
    /\ \E k \in 1..2 : (mag_cuts[k] - cfg.ast_maglimit[1]) \notin Mags

(***************************************************************************)
(* C10.                                                                    *)
(***************************************************************************)
\* C10: every getFlux call on a wrapper built by get_obscat returns one
\* entry per filter, the row's value in the filter's aliased rate column
\* times the filter's Vega flux, and with units=True returns that vector
\* tagged with units.
C10_GetFlux ==
    ret.called =>
        /\ ret.result.kind = "value"
        /\ Len(ret.result.flux) = Len(obsdata.filters)
        /\ \A i \in 1..Len(obsdata.filters) :
              ret.result.flux[i] =
                  cfg.table[obsdata.alias[obsdata.filters[i]]][ret.num]
                      * VegaFlux(obsdata.filters[i])
        /\ ret.result.tagged = ret.units

(***************************************************************************)
(* C11.                                                                    *)
(***************************************************************************)
\* the calls of the physicsmodel block, in the order of the source
PhysOps ==
    <<"create_project_dir", "make_iso_table", "make_spectral_grid",
      "add_stellar_priors", "make_grid_with_distances", "make_extinguished_sed_grid">>

IsPhysicsEv(e) == e.stage = "physicsmodel"

\* the calls the physicsmodel block has made so far
PhysLog == SelectSeq(log, IsPhysicsEv)

\* the block's calls so far are the first calls of the source order, the
\* distances are converted between the isochrone table and the spectral
\* grid, and each grid sub-step is handed what the one before it returned
PhysInOrder ==
    /\ Len(PhysLog) <= Len(PhysOps)
    /\ \A i \in 1..Len(PhysLog) : PhysLog[i].op = PhysOps[i]
    /\ Len(PhysLog) >= 3 =>
          /\ DistanceUnit(cfg.distances).kind = "ok"
          /\ distances = DistanceUnit(cfg.distances).distances
          /\ PhysLog[3].nums = [i \in 1..Len(distances) |-> distances[i].value]
    /\ Len(PhysLog) < 2 => distances = <<>>
    /\ \A i \in 3..Len(PhysLog) : PhysLog[i].obj = ReturnedBy(PhysLog[i - 1].op)

\* the run was ended by the error of the distance-unit test
BadUnitRaised == err = [kind |-> "ValueError", at |-> "distance_unit"]

\* after the error: no grid sub-step and no later stage
NothingAfterBadUnit ==
    /\ pc = "aborted"
    /\ Len(PhysLog) = 2
    /\ log[Len(log)].op = "make_iso_table"
    /\ stages = <<<<"physicsmodel", "start">>>>
    /\ SedGridFile(cfg.project) \notin (fs \ prev.fs0)

\* C11 as stated: the sub-steps of the physicsmodel stage run in the order
\* of the source, each grid sub-step handed the grid the one before it
\* returned; and when the distance unit is malformed the error ends the run
\* with no grid sub-step and no later stage run, before the stage has
\* created or written anything.
C11_BadUnitBeforeAnyWrite ==
    /\ PhysInOrder
    /\ BadUnitRaised => (NothingAfterBadUnit /\ fs = prev.fs0)

\* C11, amended: the order and the hand-over as stated; a list whose first
\* entry is in neither mag nor pc never reaches a grid sub-step, and the
\* error ends the run with no later stage run and no SED grid file written,
\* but after create_project_dir and make_iso_table have been called: the
\* project directory exists by then.
C11_BadUnitAfterDirAndIso ==
    /\ PhysInOrder
    /\ (Started("physicsmodel") /\ DistanceUnit(cfg.distances).kind # "ok") =>
          /\ Len(PhysLog) <= 2
          /\ cfg.project \in fs
          /\ pc \in {"make_iso_table", "distance_unit", "aborted"}
          /\ pc = "aborted" => BadUnitRaised
    /\ BadUnitRaised =>
          /\ NothingAfterBadUnit
          /\ PhysLog[1] = Ev("physicsmodel", "create_project_dir", "none",
                             <<cfg.project>>, <<>>, FALSE)
          /\ cfg.project \in fs

\* a run with every stage requested, in a fresh directory, that the
\* distance-unit error ended after the project directory was created
C11_BadUnitAborted ==
    /\ BadUnitRaised
    /\ \A s \in StageSet : args[s]
    /\ prev.fs0 = {}
    /\ fs = {cfg.project}

(***************************************************************************)
(* C12.                                                                    *)
(***************************************************************************)
\* the places in the log of the calls of a routine
CallsOf(op) == {i \in 1..Len(log) : log[i].op = op}

\* the ast block got past the open of the SED grid
AstGridOpened == HasCall(log, "FileSEDGrid") /\ Started("ast")

\* pick_models is called at most once, once in every ast block that has
\* ended, and never without the grid opened
ModelsPickedOnce ==
    /\ Cardinality(CallsOf("pick_models")) <= 1
    /\ Completed("ast") => Cardinality(CallsOf("pick_models")) = 1
    /\ CallsOf("pick_models") # {} => AstGridOpened

\* every pick_positions call comes after pick_models, on the input AST
\* file, with the reference image when one is configured and without one
\* otherwise
PositionsCallShape ==
    \A i \in CallsOf("pick_positions") :
        /\ \E j \in CallsOf("pick_models") : j < i
        /\ log[i].paths[1] = InputASTFile(cfg.project)
        /\ IF cfg.ast_reference_image # NoImage
           THEN log[i].flag /\ log[i].paths = <<InputASTFile(cfg.project),
                                                cfg.ast_reference_image>>
           ELSE ~log[i].flag /\ log[i].paths = <<InputASTFile(cfg.project)>>

\* C12 as stated: pick_models is called exactly once in the ast stage;
\* pick_positions is called, after it and on the input AST file, only if
\* ast_with_positions is set and a reference image or catalog positions
\* are available, with the reference image when one is configured and
\* without one otherwise; never when ast_with_positions is off.
C12_PositionsOnlyIfAvailable ==
    /\ ModelsPickedOnce
    /\ PositionsCallShape
    /\ CallsOf("pick_positions") # {} =>
          /\ cfg.ast_with_positions
          /\ (cfg.ast_reference_image # NoImage \/ HasPositions(cfg.table))

\* C12, amended: pick_models is called exactly once in every ast stage that
\* opened the SED grid and ran to its end (never when the open failed);
\* pick_positions is called exactly once, after it and on the input AST
\* file, if and only if ast_with_positions is set, whether or not a
\* reference image or catalog positions are available: with the reference
\* image when one is configured, without one otherwise.
C12_PositionsIffEnabled ==
    /\ ModelsPickedOnce
    /\ PositionsCallShape
    /\ Cardinality(CallsOf("pick_positions")) <= 1
    /\ CallsOf("pick_positions") # {} => cfg.ast_with_positions
    /\ (Completed("ast") /\ cfg.ast_with_positions) =>
          Cardinality(CallsOf("pick_positions")) = 1
    /\ (Started("ast") /\ ~CanOpen(SedGridFile(cfg.project))) =>
          CallsOf("pick_models") \cup CallsOf("pick_positions") = {}

\* an ast stage that called pick_positions with position assignment on, no
\* reference image and no positions in the catalog
C12_PositionsPickedUnavailable ==
    /\ Completed("ast")
    /\ CallsOf("pick_positions") # {}
    /\ cfg.ast_with_positions
    /\ cfg.ast_reference_image = NoImage
    /\ ~HasPositions(cfg.table)

====
